---- MODULE Spec2Model ----
(***************************************************************************)
(* The procedural word generator of ConlangDictionary                      *)
(* (src/src/simulated_kozuka_logic.py): bracket matcher, top-level         *)
(* splitter, weight parser, sequence evaluator, pattern evaluator and the  *)
(* word-batch generator generate_words.                                    *)
(*                                                                         *)
(* A Python string is a sequence of one-character strings.  Indices are    *)
(* Python's (0-based); At and Slice translate them.  A random draw is a    *)
(* nondeterministic choice: an evaluation is the set of its outcomes.      *)
(***************************************************************************)
EXTENDS Integers, Sequences, FiniteSets, TLC

(***************************************************************************)
(* Bounds of the model.                                                    *)
(***************************************************************************)
\* longest pattern of the exhaustively enumerated patterns
MaxLen == 3
\* largest count generate_words is called with (besides the examples' own)
MaxCount == 2
\* nesting of evaluate_pattern calls the interpreter's stack allows
RecursionLimit == 4
\* longest string a helper function is called with on its own
MaxArgLen == 4

(***************************************************************************)
(* Python strings.                                                         *)
(***************************************************************************)
\* s[i]
At(s, i) == s[i + 1]

\* s[a:b]
Slice(s, a, b) == SubSeq(s, a + 1, b)

\* s[a:]
SliceFrom(s, a) == SubSeq(s, a + 1, Len(s))

\* the empty string occurs in no string
contains_nonempty_only(f, w) ==
    f /= <<>> /\ \E k \in 0..(Len(w) - Len(f)) : Slice(w, k, k + Len(f)) = f

\* f in word: f occurs in word as a contiguous substring (the empty string
\* occurs in every string)
Contains(f, w) ==
    \E k \in 0..(Len(w) - Len(f)) : Slice(w, k, k + Len(f)) = f

\* [x] * n: n copies of x, none when n <= 0
Repeat(x, n) == [k \in 1..n |-> x]

Range(s) == {s[k] : k \in 1..Len(s)}

\* the strings over alphabet A of length n, and of length at most n
StringsOfLen(A, n) == [1..n -> A]

StringsUpTo(A, n) == UNION {StringsOfLen(A, k) : k \in 0..n}

(***************************************************************************)
(* find_matching_bracket(s, start_index)                                   *)
(***************************************************************************)
Openers == {"(", "[", "{"}

close_char_of(open_char) ==
    CASE open_char = "(" -> ")"
      [] open_char = "[" -> "]"
      [] open_char = "{" -> "}"
      [] OTHER -> "None"

RECURSIVE find_matching_loop(_, _, _, _, _)
\* the for loop of find_matching_bracket, about to look at index i
find_matching_loop(s, i, depth, open_char, close_char) ==
    IF i >= Len(s) THEN -1
    ELSE LET d == IF At(s, i) = open_char THEN depth + 1
                  ELSE IF At(s, i) = close_char THEN depth - 1
                  ELSE depth
         IN  IF d = 0 THEN i
             ELSE find_matching_loop(s, i + 1, d, open_char, close_char)

\* the depth starts at 0: the opening bracket at start_index is not counted
find_matching_bracket_depth_from_zero(s, start_index) ==
    LET open_char == At(s, start_index)
        close_char == close_char_of(open_char)
    IN  IF close_char = "None" THEN -1
        ELSE find_matching_loop(s, start_index + 1, 0, open_char, close_char)

find_matching_bracket(s, start_index) ==
    LET open_char == At(s, start_index)
        close_char == close_char_of(open_char)
    IN  IF close_char = "None" THEN -1
        ELSE find_matching_loop(s, start_index + 1, 1, open_char, close_char)

(***************************************************************************)
(* split_by_top_level_slash(s)                                             *)
(***************************************************************************)
RECURSIVE split_loop(_, _, _, _, _)
\* the for loop of split_by_top_level_slash, about to look at index i
split_loop(s, i, depth, current_part_start, parts) ==
    IF i >= Len(s) THEN Append(parts, SliceFrom(s, current_part_start))
    ELSE LET char == At(s, i)
         IN  IF char \in {"(", "["}
             THEN split_loop(s, i + 1, depth + 1, current_part_start, parts)
             ELSE IF char \in {")", "]"}
             THEN split_loop(s, i + 1, IF depth > 0 THEN depth - 1 ELSE depth,
                             current_part_start, parts)
             ELSE IF char = "/" /\ depth = 0
             THEN split_loop(s, i + 1, depth, i + 1,
                             Append(parts, Slice(s, current_part_start, i)))
             ELSE split_loop(s, i + 1, depth, current_part_start, parts)

\* the depth counter starts one too low
split_depth_from_minus_one(s) == split_loop(s, 0, -1, 0, <<>>)

\* the text after the first split point is lost
split_first_part_only(s) == <<split_loop(s, 0, 0, 0, <<>>)[1]>>

\* an empty trailing segment is left out
split_without_empty_tail(s) ==
    LET parts == split_loop(s, 0, 0, 0, <<>>)
    IN  IF parts[Len(parts)] = <<>>
        THEN SubSeq(parts, 1, Len(parts) - 1) ELSE parts

split_by_top_level_slash(s) == split_loop(s, 0, 0, 0, <<>>)

(***************************************************************************)
(* parse_weight(option_string)                                             *)
(***************************************************************************)
Digits == {"0", "1", "2", "3", "4", "5", "6", "7", "8", "9"}

DigitValue(c) ==
    CASE c = "0" -> 0 [] c = "1" -> 1 [] c = "2" -> 2 [] c = "3" -> 3
      [] c = "4" -> 4 [] c = "5" -> 5 [] c = "6" -> 6 [] c = "7" -> 7
      [] c = "8" -> 8 [] c = "9" -> 9

\* option_string.rfind('*'): the last index holding '*', or -1
rfind_asterisk(s) ==
    LET hits == {k \in 0..(Len(s) - 1) : At(s, k) = "*"}
    IN  IF hits = {} THEN -1 ELSE CHOOSE k \in hits : \A h \in hits : h <= k

RECURSIVE strip_left(_)
strip_left(s) ==
    IF Len(s) > 0 /\ Head(s) = " " THEN strip_left(Tail(s)) ELSE s

RECURSIVE strip_right(_)
strip_right(s) ==
    IF Len(s) > 0 /\ s[Len(s)] = " "
    THEN strip_right(SubSeq(s, 1, Len(s) - 1)) ELSE s

\* the digits of an int literal: decimal digits, single underscores allowed
\* between two digits
IsDigitString(s) ==
    /\ Len(s) > 0
    /\ \A k \in 1..Len(s) :
          \/ s[k] \in Digits
          \/ /\ s[k] = "_"
             /\ k > 1 /\ k < Len(s)
             /\ s[k - 1] \in Digits /\ s[k + 1] \in Digits

RECURSIVE digits_value(_, _)
digits_value(s, acc) ==
    IF s = <<>> THEN acc
    ELSE IF Head(s) = "_" THEN digits_value(Tail(s), acc)
    ELSE digits_value(Tail(s), acc * 10 + DigitValue(Head(s)))

\* int(weight_str): surrounding blanks are dropped, one sign is allowed;
\* anything else raises ValueError
int_parse(weight_str) ==
    LET t == strip_right(strip_left(weight_str))
        signed == Len(t) > 0 /\ Head(t) \in {"+", "-"}
        body == IF signed THEN Tail(t) ELSE t
    IN  IF IsDigitString(body)
        THEN [ok |-> TRUE,
              value |-> IF signed /\ Head(t) = "-"
                        THEN 0 - digits_value(body, 0)
                        ELSE digits_value(body, 0)]
        ELSE [ok |-> FALSE, value |-> 0]

\* the text before the last asterisk is kept even when no weight follows
parse_weight_strips_asterisk(option_string) ==
    LET last_asterisk == rfind_asterisk(option_string)
        weight_str == SliceFrom(option_string, last_asterisk + 1)
        parsed == int_parse(weight_str)
    IN  IF last_asterisk = -1
        THEN [base_pattern |-> option_string, weight |-> 1]
        ELSE [base_pattern |-> Slice(option_string, 0, last_asterisk),
              weight |-> IF weight_str /= <<>> /\ parsed.ok
                         THEN parsed.value ELSE 1]

parse_weight(option_string) ==
    LET last_asterisk == rfind_asterisk(option_string)
        weight_str == SliceFrom(option_string, last_asterisk + 1)
        parsed == int_parse(weight_str)
    IN  IF last_asterisk /= -1 /\ weight_str /= <<>> /\ parsed.ok
        THEN [base_pattern |-> Slice(option_string, 0, last_asterisk),
              weight |-> parsed.value]
        ELSE [base_pattern |-> option_string, weight |-> 1]

(***************************************************************************)
(* Outcomes of an evaluation: the text produced, or the exception raised.  *)
(* random.choice of an empty list raises IndexError; exceeding the         *)
(* interpreter's stack raises RecursionError.  Nothing in the module       *)
(* catches either (parse_weight catches ValueError only), so a raised      *)
(* exception propagates through every caller.                              *)
(***************************************************************************)
Returned(text) == [out |-> text, err |-> "none"]

Raised(exception) == [out |-> <<>>, err |-> exception]

(***************************************************************************)
(* evaluate_pattern: steps 1 and 2, the selection pool.                    *)
(***************************************************************************)
RECURSIVE weighted_loop(_, _, _)
\* the for loop over options, about to look at options[k]
weighted_loop(options, k, weighted_list) ==
    IF k > Len(options) THEN weighted_list
    ELSE LET pw == parse_weight(options[k])
         IN  weighted_loop(options, k + 1,
                           weighted_list \o Repeat(pw.base_pattern, pw.weight))

\* the last option is left out of the pool unless it is the only one
weighted_list_of_without_last(pattern) ==
    LET options == split_by_top_level_slash(pattern)
    IN  weighted_loop(IF Len(options) > 1
                      THEN SubSeq(options, 1, Len(options) - 1)
                      ELSE options, 1, <<>>)

weighted_list_of(pattern) ==
    weighted_loop(split_by_top_level_slash(pattern), 1, <<>>)

(***************************************************************************)
(* process_sequence and evaluate_pattern.  depth is the nesting of         *)
(* evaluate_pattern calls; the call made by the caller has depth 1.        *)
(***************************************************************************)
RECURSIVE evaluate_pattern(_, _, _)
RECURSIVE process_sequence_from(_, _, _, _, _)

\* an opening bracket without its closer is dropped from the output
unmatched_bracket_dropped(char, i) ==
    {[out |-> <<>>, i |-> i + 1, err |-> "none"]}

\* lines 92-96, 107-110, 119-122: an opening bracket without its closer is
\* a literal
unmatched_bracket(char, i) ==
    {[out |-> <<char>>, i |-> i + 1, err |-> "none"]}

\* the scan resumes at the closing brace, not after it
unknown_reference_off_by_one(j) ==
    {[out |-> <<>>, i |-> j, err |-> "none"]}

\* lines 102-103: a name that is not in definitions is treated as empty
unknown_reference(j) ==
    {[out |-> <<>>, i |-> j + 1, err |-> "none"]}

\* the recursive evaluation is cut down to its first character
nested_truncated(sub_pattern, j, definitions, depth) ==
    {[out |-> IF o.out = <<>> THEN <<>> ELSE <<Head(o.out)>>,
      i |-> j + 1, err |-> o.err] :
       o \in evaluate_pattern(sub_pattern, definitions, depth + 1)}

\* lines 101, 114, 128 with lines 103, 115, 129: the recursive evaluation of
\* sub_pattern is appended and the scan resumes after index j
nested(sub_pattern, j, definitions, depth) ==
    {[out |-> o.out, i |-> j + 1, err |-> o.err] :
       o \in evaluate_pattern(sub_pattern, definitions, depth + 1)}

\* an optional group is always included
sequence_step_group_always_included(pattern, i, definitions, depth) ==
    LET char == At(pattern, i)
        j == find_matching_bracket(pattern, i)
    IN  IF char = "{"
        THEN IF j = -1 THEN unmatched_bracket(char, i)
             ELSE LET ref_name == Slice(pattern, i + 1, j)
                  IN  IF ref_name \in DOMAIN definitions
                      THEN nested(definitions[ref_name], j, definitions, depth)
                      ELSE unknown_reference(j)
        ELSE IF char \in {"[", "("}
        THEN IF j = -1 THEN unmatched_bracket(char, i)
             ELSE nested(Slice(pattern, i + 1, j), j, definitions, depth)
        ELSE {[out |-> <<char>>, i |-> i + 1, err |-> "none"]}

\* One iteration of the while loop of process_sequence at index i: the set
\* of [out: the text appended to result, i: the next index, err].
sequence_step(pattern, i, definitions, depth) ==
    LET char == At(pattern, i)
        j == find_matching_bracket(pattern, i)
    IN  IF char = "{"
        THEN IF j = -1 THEN unmatched_bracket(char, i)
             ELSE LET ref_name == Slice(pattern, i + 1, j)
                  IN  IF ref_name \in DOMAIN definitions
                      THEN nested(definitions[ref_name], j, definitions, depth)
                      ELSE unknown_reference(j)
        ELSE IF char = "["
        THEN IF j = -1 THEN unmatched_bracket(char, i)
             ELSE nested(Slice(pattern, i + 1, j), j, definitions, depth)
        ELSE IF char = "("
        THEN IF j = -1 THEN unmatched_bracket(char, i)
             ELSE \* random.random() < 0.5, or not
                  nested(Slice(pattern, i + 1, j), j, definitions, depth)
                  \cup {[out |-> <<>>, i |-> j + 1, err |-> "none"]}
        ELSE \* a literal
             {[out |-> <<char>>, i |-> i + 1, err |-> "none"]}

\* the while loop of process_sequence, about to test i < len(pattern)
process_sequence_from(pattern, i, result, definitions, depth) ==
    IF i >= Len(pattern) THEN {Returned(result)}
    ELSE UNION {IF s.err /= "none" THEN {Raised(s.err)}
                ELSE process_sequence_from(pattern, s.i, result \o s.out,
                                           definitions, depth) :
                  s \in sequence_step(pattern, i, definitions, depth)}

process_sequence(pattern, definitions, depth) ==
    process_sequence_from(pattern, 0, <<>>, definitions, depth)

\* a depth guard: past the limit the evaluation yields the empty word
evaluate_pattern_depth_guarded(pattern, definitions, depth) ==
    IF depth > RecursionLimit THEN {Returned(<<>>)}
    ELSE LET options == split_by_top_level_slash(pattern)
             weighted_list == weighted_list_of(pattern)
         IN  IF options = <<>> THEN {Returned(<<>>)}
             ELSE IF weighted_list = <<>> THEN {Raised("IndexError")}
             ELSE UNION {process_sequence(chosen_pattern, definitions, depth) :
                           chosen_pattern \in Range(weighted_list)}

\* an empty selection pool yields the empty word
evaluate_pattern_empty_pool_is_empty_word(pattern, definitions, depth) ==
    IF depth > RecursionLimit THEN {Raised("RecursionError")}
    ELSE LET weighted_list == weighted_list_of(pattern)
         IN  IF weighted_list = <<>> THEN {Returned(<<>>)}
             ELSE UNION {process_sequence(chosen_pattern, definitions, depth) :
                           chosen_pattern \in Range(weighted_list)}

evaluate_pattern(pattern, definitions, depth) ==
    IF depth > RecursionLimit THEN {Raised("RecursionError")}
    ELSE LET options == split_by_top_level_slash(pattern)
             weighted_list == weighted_list_of(pattern)
         IN  IF options = <<>> THEN {Returned(<<>>)}
             ELSE IF weighted_list = <<>> THEN {Raised("IndexError")}
             ELSE UNION {process_sequence(chosen_pattern, definitions, depth) :
                           chosen_pattern \in Range(weighted_list)}

(***************************************************************************)
(* The same evaluation with its random draws written down, in the order    *)
(* they are made.  A draw is the index random.choice picks in a pool of     *)
(* `of` elements (line 157), or the outcome of the test                    *)
(* random.random() < 0.5 (line 125).  random.choice of an empty pool        *)
(* raises before it draws.                                                 *)
(***************************************************************************)
branch_pick(n, k) == [kind |-> "choice", of |-> n, value |-> k]

coin_flip(taken) == [kind |-> "random", of |-> 2, value |-> IF taken THEN 1 ELSE 0]

Drawn(text, draws) == [out |-> text, err |-> "none", draws |-> draws]

RaisedAfter(exception, draws) ==
    [out |-> <<>>, err |-> exception, draws |-> draws]

\* the pool is unordered: the index drawn does not fix the element
chosen_by_any_order(weighted_list, k) == Range(weighted_list)

\* line 157: the element random.choice returns when it draws index k
chosen_by(weighted_list, k) == {weighted_list[k + 1]}

RECURSIVE evaluate_pattern_drawn(_, _, _)
RECURSIVE process_sequence_drawn_from(_, _, _, _, _, _)

\* iterations of process_sequence that draw nothing themselves
undrawn(steps) ==
    {[out |-> s.out, i |-> s.i, err |-> s.err, draws |-> <<>>] : s \in steps}

\* lines 101, 114, 128: the recursive evaluation, after the draws the
\* iteration made itself
nested_drawn(sub_pattern, j, definitions, depth, draws) ==
    {[out |-> o.out, i |-> j + 1, err |-> o.err, draws |-> draws \o o.draws] :
       o \in evaluate_pattern_drawn(sub_pattern, definitions, depth + 1)}

\* one iteration of the while loop of process_sequence at index i
sequence_step_drawn(pattern, i, definitions, depth) ==
    LET char == At(pattern, i)
        j == find_matching_bracket(pattern, i)
    IN  IF char = "{"
        THEN IF j = -1 THEN undrawn(unmatched_bracket(char, i))
             ELSE LET ref_name == Slice(pattern, i + 1, j)
                  IN  IF ref_name \in DOMAIN definitions
                      THEN nested_drawn(definitions[ref_name], j, definitions,
                                        depth, <<>>)
                      ELSE undrawn(unknown_reference(j))
        ELSE IF char = "["
        THEN IF j = -1 THEN undrawn(unmatched_bracket(char, i))
             ELSE nested_drawn(Slice(pattern, i + 1, j), j, definitions, depth,
                               <<>>)
        ELSE IF char = "("
        THEN IF j = -1 THEN undrawn(unmatched_bracket(char, i))
             ELSE nested_drawn(Slice(pattern, i + 1, j), j, definitions, depth,
                               <<coin_flip(TRUE)>>)
                  \cup {[out |-> <<>>, i |-> j + 1, err |-> "none",
                         draws |-> <<coin_flip(FALSE)>>]}
        ELSE {[out |-> <<char>>, i |-> i + 1, err |-> "none", draws |-> <<>>]}

\* the while loop of process_sequence, about to test i < len(pattern)
process_sequence_drawn_from(pattern, i, result, draws, definitions, depth) ==
    IF i >= Len(pattern) THEN {Drawn(result, draws)}
    ELSE UNION {IF s.err /= "none" THEN {RaisedAfter(s.err, draws \o s.draws)}
                ELSE process_sequence_drawn_from(pattern, s.i, result \o s.out,
                                                 draws \o s.draws,
                                                 definitions, depth) :
                  s \in sequence_step_drawn(pattern, i, definitions, depth)}

evaluate_pattern_drawn(pattern, definitions, depth) ==
    IF depth > RecursionLimit THEN {RaisedAfter("RecursionError", <<>>)}
    ELSE LET options == split_by_top_level_slash(pattern)
             weighted_list == weighted_list_of(pattern)
         IN  IF options = <<>> THEN {Drawn(<<>>, <<>>)}
             ELSE IF weighted_list = <<>> THEN {RaisedAfter("IndexError", <<>>)}
             ELSE UNION {process_sequence_drawn_from(
                             c[2], 0, <<>>,
                             <<branch_pick(Len(weighted_list), c[1])>>,
                             definitions, depth) :
                           c \in {d \in (0..(Len(weighted_list) - 1))
                                          \X Range(weighted_list) :
                                     d[2] \in chosen_by(weighted_list, d[1])}}

(***************************************************************************)
(* generate_words: the prologue's helpers.                                 *)
(***************************************************************************)
EmptyTable == [name \in {} |-> <<>>]

\* an entry whose name is already in the table is ignored
update_keep_first(definitions, d) ==
    [name \in DOMAIN definitions \cup {d.name} |->
        IF name \in DOMAIN definitions THEN definitions[name] ELSE d.pattern]

\* definitions.update(d) for a single-entry mapping d
update(definitions, d) ==
    [name \in DOMAIN definitions \cup {d.name} |->
        IF name = d.name THEN d.pattern ELSE definitions[name]]

RECURSIVE merge_loop(_, _, _)
\* the for loop over definitions_list, about to look at definitions_list[k]
merge_loop(definitions_list, k, definitions) ==
    IF k > Len(definitions_list) THEN definitions
    ELSE merge_loop(definitions_list, k + 1,
                    update(definitions, definitions_list[k]))

merge_definitions(definitions_list) == merge_loop(definitions_list, 1, EmptyTable)

RECURSIVE caret_loop(_, _, _, _)
\* main_pattern.split('^'): the scan about to look at index i
caret_loop(s, i, part_start, parts) ==
    IF i >= Len(s) THEN Append(parts, SliceFrom(s, part_start))
    ELSE IF At(s, i) = "^"
    THEN caret_loop(s, i + 1, i + 1, Append(parts, Slice(s, part_start, i)))
    ELSE caret_loop(s, i + 1, part_start, parts)

\* the pattern is split at its first caret only
split_caret_once(s) ==
    LET carets == {k \in 0..(Len(s) - 1) : At(s, k) = "^"}
        first == CHOOSE k \in carets : \A h \in carets : k <= h
    IN  IF carets = {} THEN <<s>>
        ELSE <<Slice(s, 0, first), SliceFrom(s, first + 1)>>

split_caret(s) == caret_loop(s, 0, 0, <<>>)

\* base_pattern and filters of lines 184-190
base_pattern_of(main_pattern) ==
    IF "^" \in Range(main_pattern)
    THEN Head(split_caret(main_pattern)) ELSE main_pattern

filters_of(main_pattern) ==
    IF "^" \in Range(main_pattern)
    THEN Tail(split_caret(main_pattern)) ELSE <<>>

(***************************************************************************)
(* generate_words: the loop's helpers.                                     *)
(***************************************************************************)
max_attempts(count) == count * 10 + 100

\* the while condition with <= for the length test
loop_condition_length_off_by_one(generated_words, attempts, count) ==
    Len(generated_words) <= count /\ attempts < max_attempts(count)

\* the while condition with <= for the attempt test
loop_condition_attempts_off_by_one(generated_words, attempts, count) ==
    Len(generated_words) < count /\ attempts <= max_attempts(count)

\* the loop goes on while either test holds
loop_condition_either(generated_words, attempts, count) ==
    Len(generated_words) < count \/ attempts < max_attempts(count)

\* the while condition of line 195
loop_condition(generated_words, attempts, count) ==
    Len(generated_words) < count /\ attempts < max_attempts(count)

\* the increment left out
next_attempts_stuck(attempts) == attempts

\* attempts += 1
next_attempts(attempts) == attempts + 1

\* only the first filter is looked at
is_valid_first_filter_only(word, filters) ==
    filters = <<>> \/ ~Contains(filters[1], word)

\* is_valid of lines 200-205
is_valid(word, filters) ==
    \A k \in 1..Len(filters) : ~Contains(filters[k], word)

\* the test "word not in generated_words" left out
accept_duplicates(generated_words, word, filters) ==
    IF is_valid(word, filters)
    THEN Append(generated_words, word)
    ELSE generated_words

\* the candidate is put at the front of the list
accept_at_front(generated_words, word, filters) ==
    IF is_valid(word, filters) /\ word \notin Range(generated_words)
    THEN <<word>> \o generated_words
    ELSE generated_words

\* lines 207-208: generated_words after the candidate word was looked at
accept(generated_words, word, filters) ==
    IF is_valid(word, filters) /\ word \notin Range(generated_words)
    THEN Append(generated_words, word)
    ELSE generated_words

\* the condition of the warning of line 210
warning_condition(attempts, count) == attempts >= count * 1000 + 100

(***************************************************************************)
(* Inputs.  The examples of the module's __main__ block, and patterns and  *)
(* definition lists that reach each branch of the code: an empty filter,   *)
(* an unmatched bracket, an unknown and a self-referential reference, a    *)
(* weight of 0, weighted alternatives, an optional and a mandatory group,  *)
(* a name defined twice.                                                   *)
(***************************************************************************)
simple_pattern == <<"{", "C", "}", "{", "V", "}">>

simple_defs ==
    << [name |-> <<"C">>, pattern |-> <<"p", "/", "t", "/", "k">>],
       [name |-> <<"V">>, pattern |-> <<"a", "/", "i">>] >>

filter_pattern == <<"{", "C", "}", "{", "V", "}", "^", "p", "a", "^", "k", "i">>

self_defs == << [name |-> <<"A">>, pattern |-> <<"{", "A", "}">>] >>

override_defs ==
    << [name |-> <<"C">>, pattern |-> <<"k">>],
       [name |-> <<"V">>, pattern |-> <<"a", "/", "i">>],
       [name |-> <<"C">>, pattern |-> <<"p", "/", "t">>] >>

\* the definition table of the simple example
simple_table == merge_definitions(simple_defs)

\* an opening bracket without its closer
unmatched_pattern == <<"a", "(", "b">>

\* a mandatory group followed by a reference to a name nobody defines
unknown_pattern == <<"[", "a", "/", "b", "]", "{", "Q", "}">>

\* a weight suffix with a sign
negative_weight_pattern == <<"a", "*", "-", "2">>

\* two weighted alternatives
weighted_pattern == <<"a", "*", "3", "/", "b", "*", "1">>

\* a filter that reads like a reference
literal_filter_pattern ==
    <<"{", "C", "}", "{", "V", "}", "^", "{", "C", "}">>

\* a mandatory group whose only branch has weight 0
nested_zero_pattern == <<"x", "[", "a", "*", "0", "]">>

\* a definition that holds a caret
caret_defs ==
    << [name |-> <<"C">>, pattern |-> <<"p", "^">>],
       [name |-> <<"V">>, pattern |-> <<"a">>] >>

\* an empty filter after a base pattern whose selection pool is empty
empty_filter_zero_pattern == <<"a", "*", "0", "^">>

\* two adjacent carets: an empty filter followed by the filter b
adjacent_carets_pattern == <<"a", "^", "^", "b">>

MainPatterns ==
    { simple_pattern, filter_pattern,
      empty_filter_zero_pattern, adjacent_carets_pattern,
      <<"{", "V", "}", "^">>,
      unmatched_pattern,
      <<"{", "A", "}">>,
      <<"a", "*", "0">>,
      <<"(", "x", ")", "y">>,
      <<"a", "*", "3", "/", "b">>,
      unknown_pattern,
      negative_weight_pattern,
      weighted_pattern,
      literal_filter_pattern,
      nested_zero_pattern }

DefinitionLists ==
    { simple_defs, self_defs, override_defs, caret_defs, <<>> }

Counts == -1..MaxCount

\* the count of the simple example
simple_count == 10

\* the alphabet of the exhaustively enumerated patterns of evaluate_pattern
EvalAlphabet == {"a", "C", "(", ")", "[", "]", "{", "}", "/", "*", "2"}

\* an optional group on its own
optional_pattern == <<"(", "x", ")">>

\* two optional groups within an optional group
nested_groups_pattern == <<"(", "(", "a", ")", "(", "b", ")", ")">>

EvalPatterns ==
    StringsUpTo(EvalAlphabet, MaxLen) \cup MainPatterns
        \cup {optional_pattern, nested_groups_pattern}

EvalTables == {merge_definitions(l) : l \in DefinitionLists}

(***************************************************************************)
(* State.  generate_words: its arguments main_pattern, definitions_list    *)
(* and count, its locals definitions, base_pattern, filters,               *)
(* generated_words and attempts (the candidate of an iteration lives       *)
(* within LoopIteration), whether the warning was printed, and the         *)
(* exception raised.  One call of evaluate_pattern followed through        *)
(* process_sequence: pattern, chosen_pattern, i, result and the returned   *)
(* word.                                                                   *)
(* One call of a helper function on its own: call holds the function and   *)
(* its arguments, returned the value it returns.                           *)
(* A second call of generate_words with the same arguments: twin holds its *)
(* position, its list, its attempts and its exception; fed holds the       *)
(* random draws both calls were given in their latest iteration.           *)
(* pc is the position: start, loop, done or raised for generate_words;     *)
(* evaluate, sequence, returned or raised for evaluate_pattern; call or    *)
(* returned for a helper function.                                         *)
(***************************************************************************)
VARIABLES main_pattern, definitions_list, count, definitions, base_pattern,
          filters, generated_words, attempts, word, warned, error, pc,
          pattern, chosen_pattern, i, result, call, returned, twin, fed

vars == << main_pattern, definitions_list, count, definitions, base_pattern,
           filters, generated_words, attempts, word, warned, error, pc,
           pattern, chosen_pattern, i, result, call, returned, twin, fed >>

arguments == << main_pattern, definitions_list, count >>

evaluator == << pattern, chosen_pattern, i, result >>

batch == << main_pattern, definitions_list, count, base_pattern, filters,
            generated_words, attempts, warned >>

helper == << call, returned >>

second == << twin, fed >>

\* the second call: its arguments are bound, nothing has run
TwinCalled ==
    [pc |-> "start", generated_words |-> <<>>, attempts |-> 0, error |-> "none"]

\* no helper function is called on its own
NoCall == [function |-> "none", s |-> <<>>, start_index |-> 0]

(***************************************************************************)
(* generate_words(main_pattern, definitions_list, count)                   *)
(***************************************************************************)
\* the call: the arguments are bound, nothing has run
Called(patterns, lists, counts) ==
    /\ main_pattern \in patterns
    /\ definitions_list \in lists
    /\ count \in counts
    /\ definitions = EmptyTable
    /\ base_pattern = <<>>
    /\ filters = <<>>
    /\ generated_words = <<>>
    /\ attempts = 0
    /\ word = <<>>
    /\ warned = FALSE
    /\ error = "none"
    /\ pc = "start"
    /\ pattern = <<>>
    /\ chosen_pattern = <<>>
    /\ i = 0
    /\ result = <<>>
    /\ call = NoCall
    /\ returned = <<>>
    /\ twin = TwinCalled
    /\ fed = <<>>

Init == Called(MainPatterns, DefinitionLists, Counts)

\* lines 179-193
Start ==
    /\ pc = "start"
    /\ definitions' = merge_definitions(definitions_list)
    /\ base_pattern' = base_pattern_of(main_pattern)
    /\ filters' = filters_of(main_pattern)
    /\ generated_words' = <<>>
    /\ attempts' = 0
    /\ pc' = "loop"
    /\ UNCHANGED << arguments, word, warned, error, evaluator, helper, second >>

\* lines 195-208: one iteration of the while loop
LoopIteration ==
    /\ pc = "loop"
    /\ loop_condition(generated_words, attempts, count)
    /\ attempts' = next_attempts(attempts)
    /\ \E o \in evaluate_pattern(base_pattern, definitions, 1) :
          IF o.err /= "none"
          THEN /\ error' = o.err
               /\ pc' = "raised"
               /\ UNCHANGED << word, generated_words >>
          ELSE /\ generated_words' = accept(generated_words, o.out, filters)
               /\ UNCHANGED << word, error, pc >>
    /\ UNCHANGED << arguments, definitions, base_pattern, filters, warned,
                    evaluator, helper, second >>

\* lines 210-215: the loop has ended
Return ==
    /\ pc = "loop"
    /\ ~loop_condition(generated_words, attempts, count)
    /\ warned' = warning_condition(attempts, count)
    /\ pc' = "done"
    /\ UNCHANGED << arguments, definitions, base_pattern, filters,
                    generated_words, attempts, word, error, evaluator, helper,
                    second >>

Next == Start \/ LoopIteration \/ Return

Spec == Init /\ [][Next]_vars

\* the simple example of __main__
InitSimple == Called({simple_pattern}, {simple_defs}, {simple_count})

SpecSimple == InitSimple /\ [][Next]_vars

(***************************************************************************)
(* generate_words with the candidate of the latest iteration kept in word. *)
(***************************************************************************)
\* lines 195-208: one iteration of the while loop, word being the candidate
\* that line 197 evaluated
CandidateIteration ==
    /\ pc = "loop"
    /\ loop_condition(generated_words, attempts, count)
    /\ attempts' = next_attempts(attempts)
    /\ \E o \in evaluate_pattern(base_pattern, definitions, 1) :
          IF o.err /= "none"
          THEN /\ error' = o.err
               /\ pc' = "raised"
               /\ UNCHANGED << word, generated_words >>
          ELSE /\ word' = o.out
               /\ generated_words' = accept(generated_words, o.out, filters)
               /\ UNCHANGED << error, pc >>
    /\ UNCHANGED << arguments, definitions, base_pattern, filters, warned,
                    evaluator, helper, second >>

NextCandidate == Start \/ CandidateIteration \/ Return

SpecCandidate == Init /\ [][NextCandidate]_vars

(***************************************************************************)
(* Two calls of generate_words with the same arguments, run side by side   *)
(* and given the same random draws.                                        *)
(***************************************************************************)
\* one sequence of draws begins the other
SameDraws(a, b) ==
    \/ Len(a) <= Len(b) /\ SubSeq(b, 1, Len(a)) = a
    \/ Len(b) <= Len(a) /\ SubSeq(a, 1, Len(b)) = b

\* lines 179-193, in both calls
TwinStart ==
    /\ pc = "start"
    /\ twin.pc = "start"
    /\ definitions' = merge_definitions(definitions_list)
    /\ base_pattern' = base_pattern_of(main_pattern)
    /\ filters' = filters_of(main_pattern)
    /\ generated_words' = <<>>
    /\ attempts' = 0
    /\ pc' = "loop"
    /\ twin' = [twin EXCEPT !.pc = "loop", !.generated_words = <<>>,
                            !.attempts = 0]
    /\ UNCHANGED << arguments, word, warned, error, evaluator, helper, fed >>

\* lines 195-208, in both calls: the evaluation of the second call is given
\* the draws the evaluation of the first call consumes
TwinIteration ==
    /\ pc = "loop"
    /\ twin.pc = "loop"
    /\ loop_condition(generated_words, attempts, count)
    /\ loop_condition(twin.generated_words, twin.attempts, count)
    /\ attempts' = next_attempts(attempts)
    /\ \E o, t \in evaluate_pattern_drawn(base_pattern, definitions, 1) :
          /\ SameDraws(o.draws, t.draws)
          /\ fed' = o.draws
          /\ IF o.err /= "none"
             THEN /\ error' = o.err
                  /\ pc' = "raised"
                  /\ UNCHANGED generated_words
             ELSE /\ generated_words' = accept(generated_words, o.out, filters)
                  /\ UNCHANGED << error, pc >>
          /\ twin' =
                IF t.err /= "none"
                THEN [twin EXCEPT !.attempts = next_attempts(twin.attempts),
                                  !.error = t.err, !.pc = "raised"]
                ELSE [twin EXCEPT !.attempts = next_attempts(twin.attempts),
                                  !.generated_words =
                                      accept(twin.generated_words, t.out, filters)]
    /\ UNCHANGED << arguments, definitions, base_pattern, filters, warned,
                    word, evaluator, helper >>

\* lines 210-215, in both calls
TwinReturn ==
    /\ pc = "loop"
    /\ twin.pc = "loop"
    /\ ~loop_condition(generated_words, attempts, count)
    /\ ~loop_condition(twin.generated_words, twin.attempts, count)
    /\ warned' = warning_condition(attempts, count)
    /\ pc' = "done"
    /\ twin' = [twin EXCEPT !.pc = "done"]
    /\ UNCHANGED << arguments, definitions, base_pattern, filters,
                    generated_words, attempts, word, error, evaluator, helper,
                    fed >>

NextTwin == TwinStart \/ TwinIteration \/ TwinReturn

SpecTwin == Init /\ [][NextTwin]_vars

(***************************************************************************)
(* evaluate_pattern(pattern, definitions), its call of process_sequence    *)
(* followed iteration by iteration.                                        *)
(***************************************************************************)
InitEval ==
    /\ pattern \in EvalPatterns
    /\ definitions \in EvalTables
    /\ chosen_pattern = <<>>
    /\ i = 0
    /\ result = <<>>
    /\ word = <<>>
    /\ error = "none"
    /\ pc = "evaluate"
    /\ main_pattern = <<>>
    /\ definitions_list = <<>>
    /\ count = 0
    /\ base_pattern = <<>>
    /\ filters = <<>>
    /\ generated_words = <<>>
    /\ attempts = 0
    /\ warned = FALSE
    /\ call = NoCall
    /\ returned = <<>>
    /\ twin = TwinCalled
    /\ fed = <<>>

\* lines 145-160, up to the call of process_sequence
EvaluateChoose ==
    /\ pc = "evaluate"
    /\ LET weighted_list == weighted_list_of(pattern)
       IN  IF weighted_list = <<>>
           THEN /\ error' = "IndexError"
                /\ pc' = "raised"
                /\ UNCHANGED << chosen_pattern, i, result >>
           ELSE /\ \E k \in 1..Len(weighted_list) :
                      chosen_pattern' = weighted_list[k]
                /\ i' = 0
                /\ result' = <<>>
                /\ pc' = "sequence"
                /\ UNCHANGED error
    /\ UNCHANGED << batch, definitions, pattern, word, helper, second >>

\* lines 87-133: one iteration of the while loop of process_sequence
SequenceStep ==
    /\ pc = "sequence"
    /\ i < Len(chosen_pattern)
    /\ \E s \in sequence_step(chosen_pattern, i, definitions, 1) :
          IF s.err /= "none"
          THEN /\ error' = s.err
               /\ pc' = "raised"
               /\ UNCHANGED << i, result >>
          ELSE /\ result' = result \o s.out
               /\ i' = s.i
               /\ UNCHANGED << error, pc >>
    /\ UNCHANGED << batch, definitions, pattern, chosen_pattern, word,
                    helper, second >>

\* line 135, and the return of line 160
SequenceReturn ==
    /\ pc = "sequence"
    /\ i >= Len(chosen_pattern)
    /\ word' = result
    /\ pc' = "returned"
    /\ UNCHANGED << batch, definitions, pattern, chosen_pattern, i, result,
                    error, helper, second >>

NextEval == EvaluateChoose \/ SequenceStep \/ SequenceReturn

SpecEval == InitEval /\ [][NextEval]_vars

(***************************************************************************)
(* The helper functions find_matching_bracket, split_by_top_level_slash    *)
(* and parse_weight, each called once on its own with a string of up to    *)
(* MaxArgLen characters.                                                   *)
(***************************************************************************)
\* the characters of the strings each helper is called with
BracketAlphabet == {"a", "(", ")", "[", "]", "{", "}"}

SplitAlphabet == {"a", "/", "(", ")", "[", "]", "{", "}"}

WeightAlphabet == {"a", "*", "2", "0", "-", " "}

\* the example of the docstring of parse_weight
docstring_option == <<"a", "*", "b", "*", "2">>

\* a helper is called: find_matching_bracket with a string and an index of
\* that string, the other two with a string
InitHelpers ==
    /\ \/ \E s \in StringsUpTo(BracketAlphabet, MaxArgLen) :
             \E k \in 0..(Len(s) - 1) :
                call = [function |-> "find_matching_bracket", s |-> s,
                        start_index |-> k]
       \/ \E s \in StringsUpTo(SplitAlphabet, MaxArgLen) :
             call = [function |-> "split_by_top_level_slash", s |-> s,
                     start_index |-> 0]
       \/ \E s \in StringsUpTo(WeightAlphabet, MaxArgLen) \cup {docstring_option} :
             call = [function |-> "parse_weight", s |-> s, start_index |-> 0]
    /\ returned = <<>>
    /\ twin = TwinCalled
    /\ fed = <<>>
    /\ pc = "call"
    /\ main_pattern = <<>>
    /\ definitions_list = <<>>
    /\ count = 0
    /\ definitions = EmptyTable
    /\ base_pattern = <<>>
    /\ filters = <<>>
    /\ generated_words = <<>>
    /\ attempts = 0
    /\ word = <<>>
    /\ warned = FALSE
    /\ error = "none"
    /\ pattern = <<>>
    /\ chosen_pattern = <<>>
    /\ i = 0
    /\ result = <<>>

\* lines 10-30
FindMatchingBracket ==
    /\ pc = "call"
    /\ call.function = "find_matching_bracket"
    /\ returned' = find_matching_bracket(call.s, call.start_index)
    /\ pc' = "returned"
    /\ UNCHANGED << batch, definitions, word, error, evaluator, call,
                    second >>

\* lines 33-53
SplitByTopLevelSlash ==
    /\ pc = "call"
    /\ call.function = "split_by_top_level_slash"
    /\ returned' = split_by_top_level_slash(call.s)
    /\ pc' = "returned"
    /\ UNCHANGED << batch, definitions, word, error, evaluator, call,
                    second >>

\* lines 56-77
ParseWeight ==
    /\ pc = "call"
    /\ call.function = "parse_weight"
    /\ returned' = parse_weight(call.s)
    /\ pc' = "returned"
    /\ UNCHANGED << batch, definitions, word, error, evaluator, call,
                    second >>

NextHelpers == FindMatchingBracket \/ SplitByTopLevelSlash \/ ParseWeight

SpecHelpers == InitHelpers /\ [][NextHelpers]_vars

(***************************************************************************)
(* Properties of the helper functions.                                     *)
(***************************************************************************)
\* the weight parser as the interface describes it: a weight is the text
\* after the last asterisk when that text is a non-empty string of decimal
\* digits; every other branch is a literal of weight 1
parse_weight_reference(s) ==
    LET asterisks == {k \in 0..(Len(s) - 1) : At(s, k) = "*"}
        last == CHOOSE k \in asterisks : \A h \in asterisks : h <= k
        suffix == SliceFrom(s, last + 1)
    IN  IF \/ asterisks = {}
           \/ suffix = <<>>
           \/ \E k \in 1..Len(suffix) : suffix[k] \notin Digits
        THEN [base_pattern |-> s, weight |-> 1]
        ELSE [base_pattern |-> Slice(s, 0, last),
              weight |-> digits_value(suffix, 0)]

\* C16: for every branch string parse_weight returns what the reference
\* returns: the whole branch and 1 unless the text after the last asterisk
\* is a non-empty string of decimal digits, else the text before that
\* asterisk and the number the digits denote; the weight is never negative.
C16_AgreesWithReference ==
    (pc = "returned" /\ call.function = "parse_weight") =>
        /\ returned = parse_weight_reference(call.s)
        /\ returned.weight >= 0

Closers == {")", "]", "}"}

\* the stack of the brackets of t that are still open after t is read,
\* every closing bracket closing the innermost open one; a closing bracket
\* that does not is fatal
RECURSIVE open_brackets(_, _)
open_brackets(t, stack) ==
    IF t = <<>> THEN stack
    ELSE IF Head(t) \in Openers
    THEN open_brackets(Tail(t), <<Head(t)>> \o stack)
    ELSE IF Head(t) \in Closers
    THEN IF stack /= <<>> /\ close_char_of(Head(stack)) = Head(t)
         THEN open_brackets(Tail(t), Tail(stack))
         ELSE <<"mismatch">>
    ELSE open_brackets(Tail(t), stack)

\* t is made of properly nested bracket pairs of the three types and of
\* other characters
WellNested(t) == open_brackets(t, <<>>) = <<>>

\* the nesting depth after index j, for the bracket opened at index k: that
\* bracket and the later ones of its type up to j, less the closing
\* brackets of its type up to j
DepthAfter(s, k, j) ==
    Cardinality({m \in k..j : At(s, m) = At(s, k)})
        - Cardinality({m \in k..j : At(s, m) = close_char_of(At(s, k))})

\* C19: called at an index that holds no opening bracket,
\* find_matching_bracket returns -1.  Called at an opening bracket, it
\* returns the first later index at which the nesting depth is back to
\* zero, a closing bracket of the same type, and -1 exactly when there is
\* no such index; whenever a later closing bracket of the type encloses,
\* with the opening one, properly nested pairs of the three types only, that
\* closing bracket is what it returns.
C19_MatchingBracket ==
    (pc = "returned" /\ call.function = "find_matching_bracket") =>
        LET s == call.s
            k == call.start_index
            zero == {j \in (k + 1)..(Len(s) - 1) : DepthAfter(s, k, j) = 0}
        IN  /\ At(s, k) \notin Openers => returned = -1
            /\ At(s, k) \in Openers =>
                  /\ returned = -1 <=> zero = {}
                  /\ returned /= -1 =>
                        /\ returned \in zero
                        /\ \A j \in zero : returned <= j
                        /\ At(s, returned) = close_char_of(At(s, k))
                  /\ \A j \in (k + 1)..(Len(s) - 1) :
                        ( /\ At(s, j) = close_char_of(At(s, k))
                          /\ WellNested(Slice(s, k + 1, j)) ) => returned = j

\* the match of the first bracket of ([]) is its last one: the pair of the
\* other type in between is skipped
C19_Witness ==
    /\ pc = "returned"
    /\ call.function = "find_matching_bracket"
    /\ call.s = <<"(", "[", "]", ")">>
    /\ call.start_index = 0
    /\ returned = 3

\* the value of the depth counter when index k is about to be looked at:
\* up on ( and [, down on ) and ] unless it is 0, unchanged otherwise
RECURSIVE DepthBefore(_, _)
DepthBefore(s, k) ==
    IF k = 0 THEN 0
    ELSE LET d == DepthBefore(s, k - 1)
             c == At(s, k - 1)
         IN  IF c \in {"(", "["} THEN d + 1
             ELSE IF c \in {")", "]"} /\ d > 0 THEN d - 1
             ELSE d

\* the indices at which s is split: a slash seen while the counter is 0
SplitPoints(s) ==
    {k \in 0..(Len(s) - 1) : At(s, k) = "/" /\ DepthBefore(s, k) = 0}

\* the n-th smallest element of a set of numbers
NthOf(S, n) == CHOOSE x \in S : Cardinality({y \in S : y < x}) = n - 1

\* the returned parts are the texts between two consecutive split points,
\* in order, the first from the start and the last up to the end
SplitAtSplitPoints(s, parts) ==
    LET P == SplitPoints(s)
    IN  /\ Len(parts) = Cardinality(P) + 1
        /\ \A n \in 1..Len(parts) :
              parts[n] = Slice(s,
                               IF n = 1 THEN 0 ELSE NthOf(P, n - 1) + 1,
                               IF n = Len(parts) THEN Len(s) ELSE NthOf(P, n))
        /\ \A k \in 0..Len(s) : DepthBefore(s, k) >= 0

\* C20 as stated: the pattern is split exactly at the slashes seen while
\* the depth counter is 0, at least one segment is returned, and the
\* trailing segment is the empty string when the pattern ends with a slash.
C20_EmptyTailAfterFinalSlash ==
    (pc = "returned" /\ call.function = "split_by_top_level_slash") =>
        /\ SplitAtSplitPoints(call.s, returned)
        /\ Len(returned) >= 1
        /\ (call.s /= <<>> /\ call.s[Len(call.s)] = "/") =>
              returned[Len(returned)] = <<>>

\* C20, amended: the pattern is split exactly at the slashes seen while the
\* depth counter is 0, at least one segment is returned, and the trailing
\* segment is the empty string when the pattern ends with a slash that is
\* seen while the counter is 0; a final slash seen at a depth above 0 belongs
\* to the trailing segment.
C20_SplitAtTopLevel ==
    (pc = "returned" /\ call.function = "split_by_top_level_slash") =>
        /\ SplitAtSplitPoints(call.s, returned)
        /\ Len(returned) >= 1
        /\ (Len(call.s) - 1) \in SplitPoints(call.s) =>
              returned[Len(returned)] = <<>>
        /\ ( /\ call.s /= <<>>
              /\ call.s[Len(call.s)] = "/"
              /\ (Len(call.s) - 1) \notin SplitPoints(call.s) ) =>
              /\ returned[Len(returned)] /= <<>>
              /\ returned[Len(returned)][Len(returned[Len(returned)])] = "/"

\* [/]/ is split after the group only: its inner slash is skipped and the
\* trailing segment is empty
C20_Witness ==
    /\ pc = "returned"
    /\ call.function = "split_by_top_level_slash"
    /\ call.s = <<"[", "/", "]", "/">>
    /\ returned = << <<"[", "/", "]">>, <<>> >>

(***************************************************************************)
(* Properties of generate_words.                                           *)
(***************************************************************************)
\* the segments of s that follow a '^': from just after a '^' up to the
\* next '^' or the end
CaretSegments(s) ==
    {Slice(s, p[1], p[2]) :
        p \in {q \in (1..Len(s)) \X (0..Len(s)) :
                  /\ q[1] <= q[2]
                  /\ At(s, q[1] - 1) = "^"
                  /\ q[2] = Len(s) \/ At(s, q[2]) = "^"
                  /\ \A k \in q[1]..(q[2] - 1) : At(s, k) /= "^"}}

\* C1: in every state of the loop and in the returned list, the accumulated
\* words are pairwise distinct (exact string equality).
C1_PairwiseDistinct ==
    \A a, b \in 1..Len(generated_words) :
        a /= b => generated_words[a] /= generated_words[b]

\* two words are accumulated and a later candidate, valid for want of
\* filters, was turned away as a duplicate
C1_Witness ==
    /\ pc = "loop"
    /\ filters = <<>>
    /\ Len(generated_words) >= 2
    /\ attempts > Len(generated_words)

\* C2: no accumulated word contains, at any position, a segment that follows
\* a '^' in the main pattern.
C2_NoFilteredWord ==
    \A k \in 1..Len(generated_words) :
        \A f \in CaretSegments(main_pattern) :
            ~Contains(f, generated_words[k])

\* the filter example: a candidate was evaluated and, the list being empty,
\* turned away by a filter (it was pa or ki)
C2_Witness ==
    /\ pc = "loop"
    /\ main_pattern = filter_pattern
    /\ definitions_list = simple_defs
    /\ Len(filters) = 2
    /\ attempts >= 1
    /\ generated_words = <<>>

\* C3: for count >= 1 the accumulated list never holds more than count
\* words, in the loop and on return.
C3_AtMostCount ==
    count >= 1 => Len(generated_words) <= count

\* a call returned exactly count words
C3_Witness ==
    /\ pc = "done"
    /\ count >= 1
    /\ Len(generated_words) = count

\* C4 as stated: for count >= 1 a call of generate_words eventually returns;
\* so no call ends otherwise, by an exception that leaves generate_words.
C4_AlwaysReturns ==
    count >= 1 => pc /= "raised"

\* C4, amended: every call of generate_words ends, by returning or by an
\* exception that an evaluation of the base pattern raised (IndexError of an
\* empty selection pool, RecursionError of a self-referential definition).
\* The code runs one step after the other, so it ends when (1) every
\* iteration that stays in the loop uses up an attempt, (2) the attempts are
\* bounded, (3) the position only moves forward, start to loop to done or
\* raised, and (4) an iteration always has an outcome, a word or one of the
\* two exceptions.
C4_Terminates ==
    /\ [][pc = "loop" /\ pc' = "loop" => attempts' = attempts + 1]_vars
    /\ [](attempts <= IF count >= 1 THEN count * 10 + 100 ELSE 0)
    /\ [][\/ pc = "start" /\ pc' = "loop"
          \/ pc = "loop" /\ pc' \in {"loop", "done", "raised"}]_vars
    /\ [](pc = "loop" =>
            /\ evaluate_pattern(base_pattern, definitions, 1) /= {}
            /\ \A o \in evaluate_pattern(base_pattern, definitions, 1) :
                  o.err \in {"none", "IndexError", "RecursionError"})
    /\ [](pc = "raised" => error \in {"IndexError", "RecursionError"})

\* a call returned fewer than count words because the attempts ran out
C4_Witness ==
    /\ pc = "done"
    /\ count >= 1
    /\ Len(generated_words) < count
    /\ attempts = max_attempts(count)

\* C5: for count >= 1 the attempts counter, which counts the evaluations of
\* the base pattern, never exceeds count * 10 + 100.
C5_AttemptsBounded ==
    count >= 1 => attempts <= count * 10 + 100

\* a call used up every attempt
C5_Witness ==
    /\ pc = "done"
    /\ count >= 1
    /\ attempts = count * 10 + 100

\* the names that occur in a definition list
NamesOf(list) == {list[k].name : k \in 1..Len(list)}

\* the position of the last entry of the list that carries the name
LastIndexOf(list, name) ==
    CHOOSE k \in 1..Len(list) :
        /\ list[k].name = name
        /\ \A m \in (k + 1)..Len(list) : list[m].name /= name

\* the list without the entries whose name a later entry carries
RECURSIVE Unshadowed(_)
Unshadowed(list) ==
    IF list = <<>> THEN <<>>
    ELSE IF Head(list).name \in NamesOf(Tail(list))
    THEN Unshadowed(Tail(list))
    ELSE <<Head(list)>> \o Unshadowed(Tail(list))

\* C11: once the definition list is merged, the table holds exactly the
\* names of the list, each with the pattern of the last entry that carries
\* it; the outcomes of evaluating the base pattern are those of the list
\* without the earlier entries of a repeated name; so with C = k, V = a/i,
\* C = p/t no word of {C}{V} starts with k.
C11_LastWriteWins ==
    pc \in {"loop", "done", "raised"} =>
        /\ DOMAIN definitions = NamesOf(definitions_list)
        /\ \A name \in NamesOf(definitions_list) :
              definitions[name] =
                  definitions_list[LastIndexOf(definitions_list, name)].pattern
        /\ pc = "loop" =>
              evaluate_pattern(base_pattern, definitions, 1) =
                  evaluate_pattern(base_pattern,
                      [name \in NamesOf(Unshadowed(definitions_list)) |->
                          LET l == Unshadowed(definitions_list)
                          IN  l[CHOOSE k \in 1..Len(l) : l[k].name = name].pattern],
                      1)
        /\ (definitions_list = override_defs
                /\ main_pattern \in {simple_pattern, filter_pattern}) =>
              \A k \in 1..Len(generated_words) :
                  generated_words[k][1] \in {"p", "t"}

\* a call with C defined twice returned two words, the first of them ta
C11_Witness ==
    /\ pc = "done"
    /\ definitions_list = override_defs
    /\ main_pattern = simple_pattern
    /\ Len(generated_words) = 2
    /\ generated_words[1] = <<"t", "a">>

\* the text holds an asterisk directly followed by the digit 0: a branch
\* of weight 0
HasZeroWeight(s) ==
    \E k \in 0..(Len(s) - 2) : At(s, k) = "*" /\ At(s, k + 1) = "0"

\* an entry of the list refers to its own name
SelfReferring(list) ==
    \E k \in 1..Len(list) :
        Contains(<<"{">> \o list[k].name \o <<"}">>, list[k].pattern)

\* C12: when neither the main pattern nor a definition holds a branch of
\* weight 0 and no definition refers to itself, whatever else is malformed
\* (unmatched brackets, unknown names, text after an asterisk that is no
\* string of digits), no call of generate_words raises.
C12_MalformationNeverRaises ==
    ( /\ ~HasZeroWeight(main_pattern)
      /\ \A k \in 1..Len(definitions_list) :
            ~HasZeroWeight(definitions_list[k].pattern)
      /\ ~SelfReferring(definitions_list) ) =>
        pc /= "raised"

\* C14: a call with count <= 0 does not return a list: it never reaches
\* the return statement, it ends by an error.
C14_NonPositiveCountIsRejected ==
    count <= 0 => pc /= "done"

\* the index of the first caret of s, its length when it has none
FirstCaret(s) ==
    LET carets == {k \in 0..(Len(s) - 1) : At(s, k) = "^"}
    IN  IF carets = {} THEN Len(s)
        ELSE CHOOSE k \in carets : \A h \in carets : k <= h

\* the parts put together again, a caret between two of them
RECURSIVE JoinedByCaret(_)
JoinedByCaret(parts) ==
    IF Len(parts) = 1 THEN parts[1]
    ELSE parts[1] \o <<"^">> \o JoinedByCaret(Tail(parts))

\* C15: after the split the base pattern is the text before the first caret
\* of the main pattern, the filters are its later caret-free segments in
\* order, and the definitions keep their carets.  Every accumulated word is
\* an outcome of evaluating the base pattern.  A filter is a literal: with
\* {C}{V}^{C} the first candidate is accepted, as no word contains the text
\* {C}.  With {C}{V}^pa^ki and C = p/t/k, V = a/i the accumulated words are
\* among pi, ta, ti, ka.
C15_CaretSplit ==
    pc \in {"loop", "done", "raised"} =>
        /\ base_pattern = Slice(main_pattern, 0, FirstCaret(main_pattern))
        /\ JoinedByCaret(<<base_pattern>> \o filters) = main_pattern
        /\ \A k \in 1..Len(filters) : "^" \notin Range(filters[k])
        /\ \A k \in 1..Len(definitions_list) :
              definitions[definitions_list[k].name] \in
                  {definitions_list[m].pattern : m \in 1..Len(definitions_list)}
        /\ Range(generated_words) \subseteq
              {o.out : o \in {x \in evaluate_pattern(base_pattern, definitions, 1) :
                                 x.err = "none"}}
        /\ ( /\ main_pattern = literal_filter_pattern
              /\ definitions_list = simple_defs
              /\ count = 1
              /\ pc = "done" ) => attempts = 1
        /\ (main_pattern = filter_pattern /\ definitions_list = simple_defs) =>
              Range(generated_words) \subseteq
                  { <<"p", "i">>, <<"t", "a">>, <<"t", "i">>, <<"k", "a">> }

\* the filter example, its main pattern split into {C}{V} and the filters
\* pa and ki, returned ka and pi after three evaluations of {C}{V}
C15_Witness ==
    /\ pc = "done"
    /\ main_pattern = filter_pattern
    /\ definitions_list = simple_defs
    /\ Len(filters) = 2
    /\ Len(generated_words) = 2
    /\ attempts = 3
    /\ generated_words[1] = <<"k", "a">>
    /\ generated_words[2] = <<"p", "i">>

(***************************************************************************)
(* Properties of the selection pool of evaluate_pattern.                   *)
(***************************************************************************)
\* the pool the claim describes: for every top-level branch in order, its
\* base text as many times as its weight, a branch without a valid weight
\* suffix once
RECURSIVE reference_pool(_)
reference_pool(options) ==
    IF options = <<>> THEN <<>>
    ELSE LET branch == parse_weight_reference(Head(options))
         IN  Repeat(branch.base_pattern, branch.weight)
                 \o reference_pool(Tail(options))

\* C17: once evaluate_pattern has built its pool, the pool holds for every
\* top-level branch, in branch order, its base text exactly weight times (a
\* branch without a valid weight suffix once, a branch with weight 0 not at
\* all); the branch handed to process_sequence is an element of the pool;
\* the pool of a*3/b*1 is a, a, a, b.
C17_PoolOfWeightedBranches ==
    pc \in {"sequence", "returned", "raised"} =>
        /\ weighted_list_of(pattern) =
              reference_pool(split_by_top_level_slash(pattern))
        /\ pc = "sequence" => chosen_pattern \in Range(weighted_list_of(pattern))
        /\ pattern = weighted_pattern =>
              weighted_list_of(pattern) = << <<"a">>, <<"a">>, <<"a">>, <<"b">> >>

\* C18: when the pool of the base pattern is empty, every outcome of its
\* evaluation is IndexError and the iteration that evaluates it leaves
\* generate_words by that error without touching the list; nothing runs
\* after an error; so a call with a*0, or with the group [a*0] in its
\* pattern, never accumulates a word and, once it evaluates, never returns.
C18_EmptyPoolFailsLoudly ==
    /\ [](( /\ pc = "loop"
            /\ weighted_list_of(base_pattern) = <<>> ) =>
          evaluate_pattern(base_pattern, definitions, 1) = {Raised("IndexError")})
    /\ [][( /\ pc = "loop"
            /\ loop_condition(generated_words, attempts, count)
            /\ weighted_list_of(base_pattern) = <<>> ) =>
          ( /\ pc' = "raised"
            /\ error' = "IndexError"
            /\ generated_words' = generated_words )]_vars
    /\ [][pc /= "raised"]_vars
    /\ [](main_pattern \in {<<"a", "*", "0">>, nested_zero_pattern} =>
            /\ generated_words = <<>>
            /\ count >= 1 => pc /= "done"
            /\ pc = "raised" => error = "IndexError")

\* a call with a*0 ended by IndexError at its first evaluation
C18_Witness ==
    /\ pc = "raised"
    /\ error = "IndexError"
    /\ main_pattern = <<"a", "*", "0">>
    /\ count = 2
    /\ attempts = 1
    /\ generated_words = <<>>

\* the first position at which two sequences of draws differ
FirstDifference(a, b) ==
    CHOOSE m \in 1..Len(a) : a[m] /= b[m] /\ SubSeq(a, 1, m - 1) = SubSeq(b, 1, m - 1)

\* C13: two calls with the same arguments that are given the same draws
\* stay in the same position with the same list, attempts and exception,
\* up to and including what they return.  Within one evaluation the draws
\* consumed fix the outcome; no evaluation consumes more or fewer draws
\* than another that was given the same ones; where two evaluations first
\* differ they made the same kind of draw from a pool of the same size and
\* got different values.  The evaluation with its draws written down has
\* the outcomes of evaluate_pattern.
C13_SameDrawsSameList ==
    /\ twin.pc = pc
    /\ twin.generated_words = generated_words
    /\ twin.attempts = attempts
    /\ twin.error = error
    /\ pc = "loop" =>
          LET outcomes == evaluate_pattern_drawn(base_pattern, definitions, 1)
          IN  /\ \A o, t \in outcomes : SameDraws(o.draws, t.draws) => o = t
              /\ \A o, t \in outcomes :
                    o /= t =>
                        LET m == FirstDifference(o.draws, t.draws)
                        IN  /\ o.draws[m].kind = t.draws[m].kind
                            /\ o.draws[m].of = t.draws[m].of
                            /\ o.draws[m].value /= t.draws[m].value
              /\ {[out |-> o.out, err |-> o.err] : o \in outcomes}
                    = evaluate_pattern(base_pattern, definitions, 1)

\* both calls returned the same two words of (x)y, the last evaluation of
\* each having picked the only branch, flipped the coin of the optional
\* group and picked the only branch of the group
C13_Witness ==
    /\ pc = "done"
    /\ twin.pc = "done"
    /\ main_pattern = <<"(", "x", ")", "y">>
    /\ Len(generated_words) = 2
    /\ twin.generated_words = generated_words
    /\ fed = <<branch_pick(1, 0), coin_flip(TRUE), branch_pick(1, 0)>>

(***************************************************************************)
(* The simple example: generate_words("{C}{V}", [{C: p/t/k}, {V: a/i}],    *)
(* count = 10).                                                            *)
(***************************************************************************)
SixWords == { <<"p", "a">>, <<"p", "i">>, <<"t", "a">>, <<"t", "i">>, <<"k", "a">>, <<"k", "i">> }

\* C6 as stated: the call returns exactly the six words pa, pi, ta, ti, ka,
\* ki, each once, within the attempt bound.
C6_ExactlySixWords ==
    pc = "done" =>
        /\ Range(generated_words) = SixWords
        /\ Len(generated_words) = 6
        /\ attempts <= simple_count * 10 + 100

\* C6, amended: the call returns between one and six of the words pa, pi,
\* ta, ti, ka, ki, each at most once and never 10 words, after exactly
\* count * 10 + 100 = 200 attempts; it returns all six only when the random
\* draws produced each of them at least once.
C6_UpToSixWords ==
    /\ Range(generated_words) \subseteq SixWords
    /\ Len(generated_words) = Cardinality(Range(generated_words))
    /\ attempts <= simple_count * 10 + 100
    /\ pc = "done" =>
          /\ Len(generated_words) \in 1..6
          /\ attempts = simple_count * 10 + 100

\* the call returned all six words
C6_Witness ==
    /\ pc = "done"
    /\ count = 10
    /\ Range(generated_words) = SixWords

(***************************************************************************)
(* Properties of evaluate_pattern and process_sequence.                    *)
(***************************************************************************)
BracketCharacters == {"{", "}", "[", "]", "(", ")"}

\* C7: with C = p/t/k and V = a/i, every word that evaluating {C}{V}
\* produces is one of pa, pi, ta, ti, ka, ki, no evaluation raises, and each
\* of the six is an outcome of the evaluation.
C7_SimpleWords ==
    (pattern = simple_pattern /\ definitions = simple_table) =>
        /\ pc /= "raised"
        /\ pc = "returned" => word \in SixWords
        /\ pc = "evaluate" =>
              evaluate_pattern(pattern, definitions, 1)
                  = {Returned(w) : w \in SixWords}

\* the evaluation of {C}{V} returned ki
C7_Witness ==
    /\ pc = "returned"
    /\ pattern = simple_pattern
    /\ definitions = simple_table
    /\ word = <<"k", "i">>

\* C8 as stated: a pattern without bracket characters evaluates to itself.
C8_BracketFreeIdentity ==
    Range(pattern) \cap BracketCharacters = {} =>
        /\ pc /= "raised"
        /\ pc = "returned" => word = pattern

\* the pattern ends in a weight: an asterisk followed, up to the end, by
\* text that int() accepts
HasWeightSuffix(s) ==
    \E k \in 0..(Len(s) - 1) :
        At(s, k) = "*" /\ int_parse(SliceFrom(s, k + 1)).ok

\* C8, amended: a pattern without bracket characters, without '/' and
\* without a weight suffix evaluates to itself verbatim, under every random
\* choice, and never raises.
C8_LiteralIdentity ==
    ( /\ Range(pattern) \cap BracketCharacters = {}
      /\ "/" \notin Range(pattern)
      /\ ~HasWeightSuffix(pattern) ) =>
        /\ pc /= "raised"
        /\ pc = "sequence" =>
              /\ chosen_pattern = pattern
              /\ result = Slice(pattern, 0, i)
        /\ pc = "returned" => word = pattern

\* a pattern of three characters with an asterisk that is no weight was
\* returned as it is
C8_Witness ==
    /\ pc = "returned"
    /\ Len(pattern) >= 3
    /\ "*" \in Range(pattern)
    /\ Range(pattern) \cap (BracketCharacters \cup {"/"}) = {}
    /\ word = pattern

\* C9: when the scan of process_sequence is at an opening bracket for which
\* find_matching_bracket returns -1, the iteration raises nothing, appends
\* that bracket to the output and advances by exactly one position; so a(b
\* evaluates to a(b.
C9_UnmatchedIsLiteral ==
    /\ [][( /\ pc = "sequence"
            /\ i < Len(chosen_pattern)
            /\ At(chosen_pattern, i) \in Openers
            /\ find_matching_bracket(chosen_pattern, i) = -1 ) =>
          ( /\ pc' = "sequence"
            /\ error' = "none"
            /\ result' = Append(result, At(chosen_pattern, i))
            /\ i' = i + 1 )]_vars
    /\ [](pattern = unmatched_pattern =>
            /\ pc /= "raised"
            /\ pc = "returned" => word = unmatched_pattern)

\* the evaluation of a(b returned a word that holds the bracket
C9_Witness ==
    /\ pc = "returned"
    /\ pattern = unmatched_pattern
    /\ "(" \in Range(word)

\* C10: when the scan of process_sequence is at a reference {name} whose
\* name is not a key of the definition table, the iteration raises nothing,
\* appends nothing and resumes just after the closing brace; so [a/b]{Q}
\* evaluates to a or to b.
C10_UnknownReferenceIsEmpty ==
    /\ [][( /\ pc = "sequence"
            /\ i < Len(chosen_pattern)
            /\ At(chosen_pattern, i) = "{"
            /\ find_matching_bracket(chosen_pattern, i) /= -1
            /\ Slice(chosen_pattern, i + 1,
                     find_matching_bracket(chosen_pattern, i))
                  \notin DOMAIN definitions ) =>
          ( /\ pc' = "sequence"
            /\ error' = "none"
            /\ result' = result
            /\ i' = find_matching_bracket(chosen_pattern, i) + 1 )]_vars
    /\ [](pattern = unknown_pattern =>
            /\ pc /= "raised"
            /\ pc = "returned" => word \in { <<"a">>, <<"b">> })

\* the evaluation of [a/b]{Q} passed the unknown reference and returned b
C10_Witness ==
    /\ pc = "returned"
    /\ pattern = unknown_pattern
    /\ <<"Q">> \notin DOMAIN definitions
    /\ word = <<"b">>

\* the characters of the bracket and choice syntax
SyntaxCharacters == BracketCharacters \cup {"/"}

\* every opening bracket of the pattern and of every definition has its
\* closer and every closer its opener, properly nested
WellFormed(p, table) ==
    /\ WellNested(p)
    /\ \A name \in DOMAIN table : WellNested(table[name])

\* C21: for a well-formed pattern and well-formed definitions, the word that
\* the evaluation returns holds none of the characters { } [ ] ( ) /, whether
\* or not the referenced names are defined.
C21_NoSyntaxInOutput ==
    (pc = "returned" /\ WellFormed(pattern, definitions)) =>
        Range(word) \cap SyntaxCharacters = {}

\* the scan of process_sequence is at an optional group: a ( with its match
AtOptionalGroup ==
    /\ pc = "sequence"
    /\ i < Len(chosen_pattern)
    /\ At(chosen_pattern, i) = "("
    /\ find_matching_bracket(chosen_pattern, i) /= -1

\* C22: at a matched optional group the iteration makes exactly one boolean
\* draw of its own, whatever came before.  On false it appends nothing and
\* makes no further draw (the enclosed sub-pattern is not evaluated); on true
\* it appends an outcome of the evaluation of the enclosed sub-pattern as a
\* full pattern, after that evaluation's draws.  Either way the scan resumes
\* just after the matching ), and both outcomes are possible.  So (x)
\* evaluates to x or to the empty string, and to nothing else.
C22_OptionalGroup ==
    /\ [][AtOptionalGroup =>
            LET j == find_matching_bracket(chosen_pattern, i)
                sub == evaluate_pattern(Slice(chosen_pattern, i + 1, j),
                                        definitions, 2)
            IN  \/ /\ pc' = "sequence"
                   /\ i' = j + 1
                   /\ result' = result
                \/ /\ pc' = "sequence"
                   /\ i' = j + 1
                   /\ \E o \in sub : o.err = "none" /\ result' = result \o o.out
                \/ /\ pc' = "raised"
                   /\ \E o \in sub : o.err /= "none" /\ error' = o.err]_vars
    /\ [](AtOptionalGroup =>
            LET j == find_matching_bracket(chosen_pattern, i)
                sub == evaluate_pattern_drawn(Slice(chosen_pattern, i + 1, j),
                                              definitions, 2)
                steps == sequence_step_drawn(chosen_pattern, i, definitions, 1)
            IN  /\ \A s \in steps :
                      /\ s.draws /= <<>>
                      /\ s.draws[1] \in {coin_flip(TRUE), coin_flip(FALSE)}
                      /\ s.i = j + 1
                      /\ s.draws[1] = coin_flip(FALSE) =>
                            /\ s.draws = <<coin_flip(FALSE)>>
                            /\ s.out = <<>>
                            /\ s.err = "none"
                      /\ s.draws[1] = coin_flip(TRUE) =>
                            \E o \in sub :
                               /\ s.draws = <<coin_flip(TRUE)>> \o o.draws
                               /\ s.out = o.out
                               /\ s.err = o.err
                /\ \E s \in steps : s.draws[1] = coin_flip(FALSE)
                /\ \A o \in sub :
                      \E s \in steps :
                         /\ s.draws = <<coin_flip(TRUE)>> \o o.draws
                         /\ s.out = o.out
                /\ {[out |-> s.out, i |-> s.i, err |-> s.err] : s \in steps}
                      = sequence_step(chosen_pattern, i, definitions, 1))
    /\ [](pattern = optional_pattern =>
            /\ pc /= "raised"
            /\ pc = "returned" => word \in { <<"x">>, <<>> }
            /\ pc = "evaluate" =>
                  evaluate_pattern(pattern, definitions, 1)
                      = {Returned(<<"x">>), Returned(<<>>)})

\* the evaluation of (x) skipped the group and returned the empty string
C22_Witness ==
    /\ pc = "returned"
    /\ pattern = optional_pattern
    /\ i = 3
    /\ word = <<>>

\* the number of brackets left open by the first k characters of a properly
\* nested pattern
OpenAt(s, k) ==
    Cardinality({m \in 0..(k - 1) : At(s, m) \in Openers})
        - Cardinality({m \in 0..(k - 1) : At(s, m) \in Closers})

\* the bracket nesting depth of a properly nested pattern
NestingDepth(s) ==
    CHOOSE d \in 0..Len(s) :
        /\ \E k \in 0..Len(s) : OpenAt(s, k) = d
        /\ \A k \in 0..Len(s) : OpenAt(s, k) <= d

\* the optional groups of a properly nested pattern, by their opening index
OptionalGroups(s) == {k \in 0..(Len(s) - 1) : At(s, k) = "("}

\* the literal characters of s that lie in none of the groups of skipped
\* (a set of opening indices), in source order
Erase(s, skipped) ==
    LET kept == {k \in 0..(Len(s) - 1) :
                    /\ At(s, k) \notin BracketCharacters
                    /\ \A g \in skipped :
                          ~(g < k /\ k < find_matching_bracket(s, g))}
    IN  [n \in 1..Cardinality(kept) |-> At(s, NthOf(kept, n))]

\* t is s with some of its characters left out
RECURSIVE IsSubsequence(_, _)
IsSubsequence(t, s) ==
    IF t = <<>> THEN TRUE
    ELSE IF s = <<>> THEN FALSE
    ELSE IF Head(t) = Head(s) THEN IsSubsequence(Tail(t), Tail(s))
    ELSE IsSubsequence(t, Tail(s))

\* the pattern holds no reference: no brace
NoReference(s) == Range(s) \cap {"{", "}"} = {}

\* C23: the evaluation of a pattern without braces ends: the scan moves
\* forward with every iteration, never beyond the end of the chosen branch,
\* and the recursion never exceeds the interpreter's limit, since for a
\* properly nested pattern evaluate_pattern calls itself at most as deep as
\* the brackets nest.  Nothing is added or reordered: the word is the pattern
\* with some characters left out.  Nothing is truncated: when the pattern
\* has no slash and no asterisk either, its words are exactly its literal
\* characters outside the skipped optional groups, one word for every choice
\* of the groups to skip.  So ((a)(b)) evaluates to the empty string, a, b or
\* ab and to nothing else, and reaches depth 3, one call and two levels of
\* brackets.
C23_NoReferenceTerminates ==
    /\ [][(pc = "sequence" /\ pc' = "sequence") =>
            (i < i' /\ i' <= Len(chosen_pattern))]_vars
    /\ [](NoReference(pattern) =>
            /\ error /= "RecursionError"
            /\ evaluate_pattern(pattern, definitions, 1) /= {}
            /\ \A o \in evaluate_pattern(pattern, definitions, 1) :
                  /\ o.err \in {"none", "IndexError"}
                  /\ IsSubsequence(o.out, pattern)
            /\ pc = "returned" => IsSubsequence(word, pattern)
            /\ (WellNested(pattern) /\ NestingDepth(pattern) < RecursionLimit) =>
                  \A o \in evaluate_pattern(pattern, definitions,
                                            RecursionLimit - NestingDepth(pattern)) :
                     o.err /= "RecursionError"
            /\ ( /\ WellNested(pattern)
                 /\ Range(pattern) \cap {"/", "*"} = {} ) =>
                  evaluate_pattern(pattern, definitions, 1)
                      = {Returned(Erase(pattern, skipped)) :
                           skipped \in SUBSET OptionalGroups(pattern)})
    /\ [](pattern = nested_groups_pattern =>
            /\ evaluate_pattern(pattern, definitions, 1)
                  = {Returned(w) : w \in { <<>>, <<"a">>, <<"b">>, <<"a", "b">> }}
            /\ NestingDepth(pattern) = 2
            /\ Raised("RecursionError")
                  \in evaluate_pattern(pattern, definitions, RecursionLimit - 1)
            /\ pc = "returned" =>
                  word \in { <<>>, <<"a">>, <<"b">>, <<"a", "b">> })

\* the evaluation of ((a)(b)) took the outer group, skipped the first inner
\* one and returned b
C23_Witness ==
    /\ pc = "returned"
    /\ pattern = nested_groups_pattern
    /\ word = <<"b">>

\* the definition table of A = {A}
self_table == merge_definitions(self_defs)

\* the pattern {A}
self_pattern == <<"{", "A", "}">>

\* C24: nothing guards a definition that refers to itself.  With A = {A}
\* the evaluation of {A} never returns a word: at whatever depth it is
\* entered, up to the limit of the interpreter, it enters the next depth,
\* the pool holding {A} alone and the reference being found, so the depth is
\* bounded by that limit only and the one outcome is the RecursionError
\* raised beyond it.
C24_SelfReferenceNeverBottomsOut ==
    (pattern = self_pattern /\ definitions = self_table) =>
        /\ pc /= "returned"
        /\ error \in {"none", "RecursionError"}
        /\ pc = "sequence" => (chosen_pattern = self_pattern /\ i = 0)
        /\ weighted_list_of(definitions[<<"A">>]) = <<self_pattern>>
        /\ \A depth \in 1..(RecursionLimit + 1) :
              evaluate_pattern(pattern, definitions, depth)
                  = {Raised("RecursionError")}
        /\ \A depth \in 1..RecursionLimit :
              \A s \in sequence_step(self_pattern, 0, definitions, depth) :
                 s \in nested(definitions[<<"A">>], 2, definitions, depth)

\* the evaluation of {A} with A = {A} ended in a RecursionError
C24_Witness ==
    /\ pc = "raised"
    /\ pattern = self_pattern
    /\ definitions = self_table
    /\ error = "RecursionError"

(***************************************************************************)
(* Properties of the loop of generate_words.                               *)
(***************************************************************************)
\* a is the beginning of b
IsPrefix(a, b) == Len(a) <= Len(b) /\ SubSeq(b, 1, Len(a)) = a

\* C25: in every iteration of the loop the candidate is appended to the end
\* of the list if and only if no filter occurs in it and it is not in the
\* list yet; otherwise the list is left as it is.  The list is empty when
\* the loop begins, an iteration that ends in an exception and the return
\* leave it as it is, and no step reorders it or takes a word out of it: so
\* the returned list is the candidates that passed the filters, each where
\* it first occurred, in the order they were generated.
C25_AppendedIffValidAndNew ==
    /\ [][(pc = "loop" /\ pc' = "loop" /\ attempts' /= attempts) =>
            LET passes == \A k \in 1..Len(filters) :
                             ~Contains(filters[k], word')
                new == \A k \in 1..Len(generated_words) :
                          generated_words[k] /= word'
            IN  /\ Returned(word') \in evaluate_pattern(base_pattern, definitions, 1)
                /\ (passes /\ new) =>
                      generated_words' = generated_words \o <<word'>>
                /\ ~(passes /\ new) => generated_words' = generated_words]_vars
    /\ [][pc = "start" => generated_words' = <<>>]_vars
    /\ [][(pc = "loop" /\ pc' \in {"done", "raised"}) =>
            generated_words' = generated_words]_vars
    /\ [][pc = "loop" => IsPrefix(generated_words, generated_words')]_vars
    /\ []( ( /\ pc = "done"
              /\ attempts >= 1
              /\ \A k \in 1..Len(filters) : ~Contains(filters[k], word) ) =>
               \E k \in 1..Len(generated_words) : generated_words[k] = word)

\* with filters in force the second word of the list has just been
\* appended, after a candidate that was turned away
C25_Witness ==
    /\ pc = "loop"
    /\ filters /= <<>>
    /\ Len(generated_words) = 2
    /\ generated_words[2] = word
    /\ attempts >= 3

\* C26: for count >= 1 the call stops as soon as the list holds count words:
\* from then on no candidate is evaluated, the one step left is the return,
\* which leaves the list and the attempts as they are.  A call that returns
\* fewer than count words has used up its attempts: on return the list holds
\* exactly count words or exactly count * 10 + 100 attempts were made.
C26_StopsAtCountOrBound ==
    /\ [][(count >= 1 /\ pc = "loop" /\ Len(generated_words) = count) =>
            ( /\ pc' = "done"
              /\ attempts' = attempts
              /\ generated_words' = generated_words )]_vars
    /\ [][(count >= 1 /\ pc = "loop" /\ pc' = "done") =>
            \/ Len(generated_words) = count
            \/ attempts = count * 10 + 100]_vars
    /\ [](count >= 1 /\ pc = "done" =>
            \/ Len(generated_words) = count
            \/ attempts = count * 10 + 100)
    /\ [](count >= 1 /\ pc = "done" /\ Len(generated_words) < count =>
            attempts = count * 10 + 100)

\* a call for two words returned after its second attempt, both candidates
\* having been taken
C26_Witness ==
    /\ pc = "done"
    /\ count = 2
    /\ Len(generated_words) = 2
    /\ attempts = 2

\* C27: the warning is printed exactly when the loop ended because the
\* count * 10 + 100 attempts were used up with fewer than count words in the
\* list; it is never printed when the list holds count words, nor when no
\* attempt was made.
C27_WarnedIffBoundExhausted ==
    pc = "done" =>
        /\ warned <=> ( /\ attempts >= count * 10 + 100
                        /\ Len(generated_words) < count )
        /\ Len(generated_words) = count => ~warned
        /\ attempts = 0 => ~warned

\* the main pattern ends with a caret or holds two adjacent carets
HasEmptyFilter(s) ==
    \E k \in 0..(Len(s) - 1) :
        At(s, k) = "^" /\ (k = Len(s) - 1 \/ At(s, k + 1) = "^")

\* C28 as stated: with an empty filter segment in the main pattern and
\* count >= 1, no candidate is ever accepted and the call returns the empty
\* list after exactly count * 10 + 100 attempts, whatever the base pattern.
C28_EmptyFilterExhaustsBound ==
    (count >= 1 /\ HasEmptyFilter(main_pattern)) =>
        /\ generated_words = <<>>
        /\ pc /= "raised"
        /\ pc = "done" => attempts = count * 10 + 100

\* C28, amended: with an empty filter segment in the main pattern and
\* count >= 1, no candidate is ever accepted, the empty string being a
\* substring of every word.  The call goes on until the attempts are used
\* up and returns the empty list after exactly count * 10 + 100 of them,
\* unless an evaluation of the base pattern raises: then the call ends with
\* that exception at that attempt, the list still empty.
C28_EmptyFilterRejectsAll ==
    (count >= 1 /\ HasEmptyFilter(main_pattern)) =>
        /\ generated_words = <<>>
        /\ pc \in {"loop", "done", "raised"} =>
              /\ \E k \in 1..Len(filters) : filters[k] = <<>>
              /\ \A o \in evaluate_pattern(base_pattern, definitions, 1) :
                    o.err = "none" => accept(generated_words, o.out, filters) = <<>>
        /\ pc = "done" => attempts = count * 10 + 100
        /\ pc = "loop" /\ attempts < count * 10 + 100 =>
              loop_condition(generated_words, attempts, count)
        /\ pc = "raised" =>
              /\ attempts \in 1..(count * 10 + 100)
              /\ Raised(error) \in evaluate_pattern(base_pattern, definitions, 1)

\* the call for two words with the main pattern a^^b returned the empty
\* list after 120 attempts
C28_Witness ==
    /\ pc = "done"
    /\ main_pattern = adjacent_carets_pattern
    /\ count = 2
    /\ attempts = 120
    /\ generated_words = <<>>

(***************************************************************************)
(* The splitter read back, and the splitter against the bracket matcher.   *)
(***************************************************************************)
\* '/'.join(parts)
RECURSIVE JoinedBySlash(_)
JoinedBySlash(parts) ==
    IF parts = <<>> THEN <<>>
    ELSE IF Len(parts) = 1 THEN parts[1]
    ELSE parts[1] \o <<"/">> \o JoinedBySlash(Tail(parts))

\* C29: for every string, the segments split_by_top_level_slash returns,
\* joined with a slash between two of them, are the string again, and there
\* is one segment more than there are slashes seen while the depth counter
\* is 0.
C29_SplitRoundTrip ==
    (pc = "returned" /\ call.function = "split_by_top_level_slash") =>
        /\ JoinedBySlash(returned) = call.s
        /\ Len(returned) = Cardinality(SplitPoints(call.s)) + 1

\* a/(/ is split at its first slash only, the second being seen at depth 1,
\* and the two segments joined give it back
C29_Witness ==
    /\ pc = "returned"
    /\ call.function = "split_by_top_level_slash"
    /\ call.s = <<"a", "/", "(", "/">>
    /\ Len(returned) = 2
    /\ JoinedBySlash(returned) = call.s

\* the indices of s at which its returned parts were cut: each part but the
\* last is followed by the slash that ended it
UsedSplitPoints(parts) ==
    {Len(JoinedBySlash(SubSeq(parts, 1, n))) : n \in 1..(Len(parts) - 1)}

\* the groups of s: an opening ( or [ and the closing bracket that
\* find_matching_bracket pairs with it
GroupsOf(s) ==
    {g \in (0..(Len(s) - 1)) \X (0..(Len(s) - 1)) :
        /\ At(s, g[1]) \in {"(", "["}
        /\ find_matching_bracket(s, g[1]) = g[2]}

\* C30 as stated: in every pattern, a slash strictly between a ( or [ and
\* the closing bracket that find_matching_bracket pairs with it is not a
\* split point of split_by_top_level_slash.
C30_NoSplitInsideGroup ==
    (pc = "returned" /\ call.function = "split_by_top_level_slash") =>
        \A g \in GroupsOf(call.s) :
            \A m \in (g[1] + 1)..(g[2] - 1) : m \notin UsedSplitPoints(returned)

\* C30, amended: a slash strictly between a ( or [ and the closing bracket
\* that find_matching_bracket pairs with it is not a split point whenever
\* the text between the two brackets is properly nested, and more generally
\* whenever the round and square brackets from the opening one up to the
\* slash, counted together and never below zero, leave one open.  A closing
\* bracket of the other kind inside the group can bring the count of the
\* splitter to zero: (]/) is cut into (] and ), although the matcher pairs
\* its first bracket with its last.
C30_NoSplitInsideNestedGroup ==
    (pc = "returned" /\ call.function = "split_by_top_level_slash") =>
        /\ \A g \in GroupsOf(call.s) :
              \A m \in (g[1] + 1)..(g[2] - 1) :
                 /\ WellNested(Slice(call.s, g[1] + 1, g[2])) =>
                       m \notin UsedSplitPoints(returned)
                 /\ DepthBefore(Slice(call.s, g[1], m), m - g[1]) >= 1 =>
                       m \notin UsedSplitPoints(returned)
        /\ call.s = <<"(", "]", "/", ")">> =>
              /\ find_matching_bracket(call.s, 0) = 3
              /\ returned = << <<"(", "]">>, <<")">> >>

\* [/]/ is split at its last slash and not at the one within the group
C30_Witness ==
    /\ pc = "returned"
    /\ call.function = "split_by_top_level_slash"
    /\ call.s = <<"[", "/", "]", "/">>
    /\ <<0, 2>> \in GroupsOf(call.s)
    /\ UsedSplitPoints(returned) = {3}

====
